---- MODULE Spec2Model ----
(***************************************************************************)
(* Model of the logo service: the cached logo description behind a         *)
(* reader/writer lock (LOGO_CACHE), the refresh cycle update_logo, the     *)
(* render request get_logo_png / get_logo_data and the pixel compositor    *)
(* write_character.                                                        *)
(*                                                                         *)
(* A colour token is a sequence of one-character strings, a panel is a     *)
(* sequence of tokens, a character a sequence of panels and a description  *)
(* a sequence of characters (Vec<Vec<Vec<String>>>).  An image buffer is   *)
(* kept as its length `len` and the map `px` from the pixel indices that   *)
(* were written to their four bytes; every byte outside `px` still has the *)
(* value 0 that vec![0; ..] gave it.  Option<T> is <<>> for None and       *)
(* <<v>> for Some(v).                                                      *)
(***************************************************************************)
EXTENDS Integers, Sequences, FiniteSets, TLC

----------------------------------------------------------------------------
(* Bounds of the model *)

\* how many times the remote description changes before it stays put
MaxChanges == 1
\* largest pixel size a render request asks for
MaxSize == 2

----------------------------------------------------------------------------
(* Colour decoding: logo.rs 183-197 *)

HexDigits == <<"0", "1", "2", "3", "4", "5", "6", "7", "8", "9",
               "a", "b", "c", "d", "e", "f">>
HexUpper == <<"0", "1", "2", "3", "4", "5", "6", "7", "8", "9",
              "A", "B", "C", "D", "E", "F">>

\* char::to_digit(16): the value of a hex digit, -1 for any other character
to_digit(c) ==
    IF \E i \in 1..16 : HexDigits[i] = c
    THEN (CHOOSE i \in 1..16 : HexDigits[i] = c) - 1
    ELSE IF \E i \in 1..16 : HexUpper[i] = c
         THEN (CHOOSE i \in 1..16 : HexUpper[i] = c) - 1
         ELSE -1

RECURSIVE from_digits(_, _)
\* accumulate the digits of s in base 16 onto acc; -1 when a digit is invalid
\* or the value leaves u8
from_digits(s, acc) ==
    IF Len(s) = 0 THEN acc
    ELSE IF to_digit(Head(s)) < 0 THEN -1
    ELSE IF acc * 16 + to_digit(Head(s)) > 255 THEN -1
    ELSE from_digits(Tail(s), acc * 16 + to_digit(Head(s)))

\* u8::from_str_radix(s, 16): one leading "+" is accepted, an empty digit
\* string or a non-hex character is an error (-1)
from_str_radix(s) ==
    LET digits == IF Len(s) > 0 /\ Head(s) = "+" THEN Tail(s) ELSE s
    IN  IF Len(digits) = 0 THEN -1 ELSE from_digits(digits, 0)

\* the (r, g, b) of a token, or <<>> when from_str_radix fails (the `?`)
DecodeColor(pixel) ==
    LET tri(a, b, c) == IF a < 0 \/ b < 0 \/ c < 0 THEN <<>> ELSE <<a, b, c>>
    IN  IF Len(pixel) = 7
        THEN tri(from_str_radix(SubSeq(pixel, 2, 3)),
                 from_str_radix(SubSeq(pixel, 4, 5)),
                 from_str_radix(SubSeq(pixel, 6, 7)))
        ELSE IF Len(pixel) = 6
        THEN tri(from_str_radix(SubSeq(pixel, 1, 2)),
                 from_str_radix(SubSeq(pixel, 3, 4)),
                 from_str_radix(SubSeq(pixel, 5, 6)))
        ELSE <<155, 155, 155>>

----------------------------------------------------------------------------
(* The compositor: logo.rs 135-211 *)

\* the fixed per-character panel offsets, coords[char_index][panel_index]
coords == <<
    << <<0, 0>>, <<0, 16>>, <<0, 24>>, <<0, 32>> >>,
    << <<0, 0>>, <<0, 8>>, <<8, 8>>, <<0, 16>>, <<0, 24>>, <<8, 24>>, <<16, 24>> >>,
    << <<0, 8>>, <<8, 8>>, <<16, 8>>, <<0, 16>>, <<16, 16>>, <<0, 24>>, <<8, 24>>,
       <<16, 24>> >>,
    << <<0, 8>>, <<8, 8>>, <<16, 8>>, <<0, 16>>, <<0, 24>> >>,
    << <<8, 8>>, <<16, 8>>, <<0, 16>>, <<16, 16>>, <<0, 24>>, <<8, 24>>, <<16, 24>> >>,
    << <<0, 0>>, <<0, 8>>, <<8, 8>>, <<0, 16>>, <<0, 24>>, <<8, 24>>, <<16, 24>> >>,
    << <<0, 8>>, <<8, 8>>, <<16, 8>>, <<0, 16>>, <<16, 16>>, <<0, 24>>, <<8, 24>> >>
>>

\* the pre-scale x of pixel pixel_index of panel panel_index (both 0-based)
PosX(char_index, panel_index, pixel_index, letter_x) ==
    coords[char_index + 1][panel_index + 1][1] + (pixel_index % 8) + letter_x

\* the pre-scale y of that pixel
PosY(char_index, panel_index, pixel_index, letter_y) ==
    coords[char_index + 1][panel_index + 1][2] + (pixel_index \div 8) + letter_y

\* the pixel indices x + y * width of the pixel_size x pixel_size block of
\* the logical pixel (x, y)
BlockIndices(x, y, pixel_size, width) ==
    { (ex + x * pixel_size) + (ey + y * pixel_size) * width :
        ex \in 0..(pixel_size - 1), ey \in 0..(pixel_size - 1) }

\* mutant of PixelBytes: the alpha byte is not written (line 204 left out)
PixelBytesNoAlpha(rgb) == <<rgb[1], rgb[2], rgb[3], 0>>

\* the four bytes stored for one pixel
PixelBytes(rgb) == <<rgb[1], rgb[2], rgb[3], 255>>

\* one iteration of the pixel loop.  c is the call's context: chr, char_index,
\* pixel_size, width, len, letter_x, letter_y.  The result is "ok" with the
\* new buffer, "err" (the `?` on a colour) or "panic" (an index outside the
\* table or outside the buffer).  letter_x >= 0 and the table is >= 0, so x
\* is never negative; a negative y becomes a huge usize and its index is
\* outside the buffer.
WritePixel(c, panel_index, pixel_index, px) ==
    IF c.char_index + 1 > Len(coords) \/ panel_index + 1 > Len(coords[c.char_index + 1])
    THEN [status |-> "panic", px |-> px]
    ELSE LET x == PosX(c.char_index, panel_index, pixel_index, c.letter_x)
             y == PosY(c.char_index, panel_index, pixel_index, c.letter_y)
             rgb == DecodeColor(c.chr[panel_index + 1][pixel_index + 1])
             idx == BlockIndices(x, y, c.pixel_size, c.width)
         IN  IF c.pixel_size = 0 THEN [status |-> "ok", px |-> px]
             ELSE IF rgb = <<>> THEN [status |-> "err", px |-> px]
             ELSE IF x < 0 \/ y < 0 \/ \E i \in idx : i * 4 >= c.len
                  THEN [status |-> "panic", px |-> px]
             ELSE [status |-> "ok",
                   px |-> [i \in idx |-> PixelBytes(rgb)] @@ px]

RECURSIVE WriteFrom(_, _, _, _)
\* the two nested loops of write_character from (panel_index, pixel_index) on
WriteFrom(c, panel_index, pixel_index, px) ==
    IF panel_index >= Len(c.chr) THEN [status |-> "ok", px |-> px]
    ELSE IF pixel_index >= Len(c.chr[panel_index + 1])
         THEN WriteFrom(c, panel_index + 1, 0, px)
    ELSE LET r == WritePixel(c, panel_index, pixel_index, px)
         IN  IF r.status # "ok" THEN r
             ELSE WriteFrom(c, panel_index, pixel_index + 1, r.px)

write_character(chr, char_index, pixel_size, width, len, px, letter_x, letter_y) ==
    WriteFrom([chr |-> chr, char_index |-> char_index, pixel_size |-> pixel_size,
               width |-> width, len |-> len, letter_x |-> letter_x,
               letter_y |-> letter_y], 0, 0, px)

----------------------------------------------------------------------------
(* Canvas and layout: logo.rs 74-133 *)

\* LogoOptions::default()
DefaultOptions == [size |-> <<>>, character |-> <<>>, crop |-> FALSE]

\* options.size.unwrap_or(1)
PixelSize(options) == IF options.size = <<>> THEN 1 ELSE options.size[1]

\* the y offset of the single-character layout
CropY(options) ==
    IF options.crop
    THEN IF options.character[1] \in {0, 1, 5} THEN 0 ELSE -8
    ELSE 0

CanvasHeight(options) ==
    IF options.character = <<>> THEN 32 * PixelSize(options)
    ELSE (CropY(options) + 32) * PixelSize(options)

CanvasWidth(options) ==
    IF options.character = <<>> THEN 152 * PixelSize(options)
    ELSE IF options.character[1] = 0 THEN 8 * PixelSize(options)
    ELSE 8 * 3 * PixelSize(options)

\* the x offset of character char_index in the full strip
StripX(char_index) == IF char_index = 0 THEN 0 ELSE (char_index * 3 - 2) * 8

\* vec![0; width * height * 4]: nothing written yet
NoPixels == [i \in {} |-> <<0, 0, 0, 0>>]

NewImage(options) ==
    [width |-> CanvasWidth(options), height |-> CanvasHeight(options),
     len |-> CanvasWidth(options) * CanvasHeight(options) * 4, px |-> NoPixels]

\* byte j (0-based) of the buffer of image
Byte(image, j) ==
    IF (j \div 4) \in DOMAIN image.px THEN image.px[j \div 4][(j % 4) + 1] ELSE 0

\* one write_character call of get_logo_data on the description logo: the
\* character char_index, placed as the layout of options places it
WriteOne(logo, options, char_index, image) ==
    LET r == write_character(logo[char_index + 1], char_index, PixelSize(options),
                             image.width, image.len, image.px,
                             IF options.character = <<>> THEN StripX(char_index) ELSE 0,
                             IF options.character = <<>> THEN 0 ELSE CropY(options))
    IN  [status |-> r.status, image |-> [image EXCEPT !.px = r.px]]

RECURSIVE StripFrom(_, _, _, _)
\* the loop over the characters of the full strip from char_index on
StripFrom(logo, options, char_index, image) ==
    IF char_index >= Len(logo) THEN [status |-> "ok", image |-> image]
    ELSE LET r == WriteOne(logo, options, char_index, image)
         IN  IF r.status # "ok" THEN r
             ELSE StripFrom(logo, options, char_index + 1, r.image)

\* get_logo_data run on one description from start to end
get_logo_data(logo, options) ==
    IF options.character = <<>> THEN StripFrom(logo, options, 0, NewImage(options))
    ELSE IF options.character[1] >= Len(logo)
         THEN [status |-> "err", image |-> NewImage(options)]
    ELSE WriteOne(logo, options, options.character[1], NewImage(options))

\* png::Encoder: the header carries width and height, colour type RGBA and
\* depth 8; write_image_data fails (and the unwrap panics) when the data does
\* not fill width * height * 4 bytes
EncodePng(image) ==
    IF image.len # image.width * image.height * 4
    THEN [status |-> "panic"]
    ELSE [status |-> "ok", width |-> image.width, height |-> image.height,
          color |-> "RGBA", depth |-> 8, idat |-> image.px]

\* get_logo_png run on one description from start to end
get_logo_png(logo, options) ==
    LET r == get_logo_data(logo, options)
    IN  IF r.status # "ok" THEN [status |-> r.status] ELSE EncodePng(r.image)

----------------------------------------------------------------------------
(* Descriptions and options the model draws from *)

TokRed == <<"#", "f", "f", "0", "0", "0", "0">>
TokGreen == <<"0", "0", "F", "F", "0", "0">>
TokPlus == <<"+", "f", "0", "0", "0", "0">>
TokGray == <<"x">>
TokBad == <<"#", "z", "z", "0", "0", "0", "0">>

\* the initial cache: LogoResponse { logo: vec![] }
EmptyLogo == <<>>
\* two characters, one panel of one pixel each
LogoA == << << <<TokRed>> >>, << <<TokGreen>> >> >>
\* one character whose only pixel is no hex colour
LogoBad == << << <<TokBad>> >> >>

\* what the remote API may serve to the refresh cycles
Descs == {EmptyLogo, LogoA, LogoBad}

\* a description of n characters, each of `panels` panels (at most as many as
\* the table holds when panels = 0) of k pixels tok
MkLogo(n, panels, k, tok) ==
    [c \in 1..n |->
        [p \in 1..(IF panels = 0
                   THEN (IF c <= Len(coords) THEN Len(coords[c]) ELSE 1)
                   ELSE panels) |->
            [q \in 1..k |-> tok]]]

\* the descriptions the compositor is run on
RenderDescs ==
    { MkLogo(n, panels, k, tok) :
        n \in {0, 1, 3, 7, 8}, panels \in {0, 3}, k \in {0, 1, 9},
        tok \in {TokRed, TokGreen, TokPlus, TokGray, TokBad} }

Opt(S) == {<<>>} \cup { <<v>> : v \in S }

\* the options of a render request (HTTP query: size, character, crop)
AllOptions ==
    [size : Opt(1..MaxSize), character : Opt(0..7), crop : BOOLEAN]

\* the render requests run beside the refresh cycles
PipeOptions ==
    {DefaultOptions, [size |-> <<MaxSize>>, character |-> <<1>>, crop |-> TRUE]}

Updaters == {"u1", "u2"}
Requesters == {"r1"}
Procs == Updaters \cup Requesters

----------------------------------------------------------------------------
(* State *)

VARIABLES
    remote,     \* the description the remote API serves now
    changes,    \* how often it has changed
    cache,      \* LOGO_CACHE
    readers,    \* the units of work holding a read guard of LOGO_CACHE
    writers,    \* the units of work holding a write guard of LOGO_CACHE
    pc,         \* where each unit of work stands
    live_logo,  \* update_logo: the description fetched
    options,    \* get_logo_data: its options
    char_index, \* get_logo_data: the characters written so far
    image,      \* get_logo_data: the buffer
    logo_png,   \* get_logo_png: the encoded image
    result,     \* what the unit of work returned: "ok", "err" or "panic"
    sent,       \* the last PNG handed to live::send_update
    timeline,   \* the row each cycle inserted with db::save_logo, if any
    log,        \* history: the operations of the unit of work so far, each
                \* with the lock it held on LOGO_CACHE at that time
    snap,       \* history: the cache when the running get_logo_data took its
                \* read lock
    heal        \* history: "failed" after a cycle swapped and failed to render
                \* with no other cycle in flight, "healed" when the next
                \* cycle has returned Ok

vars == <<remote, changes, cache, readers, writers, pc, live_logo, options,
          char_index, image, logo_png, result, sent, timeline, log, snap, heal>>

NoImage == [width |-> 0, height |-> 0, len |-> 0, px |-> NoPixels]
NoPng == [status |-> "none"]

\* the lock a unit of work holds on LOGO_CACHE
Held(p) == IF p \in writers THEN "write" ELSE IF p \in readers THEN "read" ELSE "none"

\* the log with the operation op of p added
Logged(p, op, ok) ==
    LET e == [op |-> op, lock |-> Held(p), ok |-> ok]
    IN  IF \E i \in 1..Len(log[p]) : log[p][i] = e THEN log[p] ELSE Append(log[p], e)

Has(p, op) == \E i \in 1..Len(log[p]) : log[p][i].op = op

Init ==
    /\ remote = EmptyLogo
    /\ changes = 0
    /\ cache = EmptyLogo
    /\ readers = {}
    /\ writers = {}
    /\ pc = [p \in Procs |-> "idle"]
    /\ live_logo = [p \in Procs |-> EmptyLogo]
    /\ options = [p \in Procs |-> DefaultOptions]
    /\ char_index = [p \in Procs |-> 0]
    /\ image = [p \in Procs |-> NoImage]
    /\ logo_png = [p \in Procs |-> NoPng]
    /\ result = [p \in Procs |-> "none"]
    /\ sent = NoPng
    /\ timeline = [p \in Procs |-> NoPng]
    /\ log = [p \in Procs |-> <<>>]
    /\ snap = [p \in Procs |-> EmptyLogo]
    /\ heal = "none"

----------------------------------------------------------------------------
(* The remote API *)

RemoteChange ==
    /\ changes < MaxChanges
    /\ \E d \in Descs \ {remote} : remote' = d
    /\ changes' = changes + 1
    /\ UNCHANGED <<cache, readers, writers, pc, live_logo, options, char_index,
                   image, logo_png, result, sent, timeline, log, snap, heal>>

----------------------------------------------------------------------------
(* update_logo: logo.rs 34-57 *)

\* a new cycle or a new artifact ends the "healed" moment
Moved == IF heal = "healed" THEN "none" ELSE heal

\* a cycle that swapped fails: the divergence starts (recorded when no other
\* cycle is in flight, so that every later cycle started after it)
Failed(u) ==
    IF u \in Updaters /\ Has(u, "swap")
    THEN IF \A v \in Updaters \ {u} : pc[v] = "idle" THEN "failed" ELSE "none"
    ELSE heal

\* a cycle returns Ok
Healed == IF heal = "failed" THEN "healed" ELSE heal

\* line 35, the fetch succeeds
Fetch(u) ==
    /\ pc[u] = "idle"
    /\ live_logo' = [live_logo EXCEPT ![u] = remote]
    /\ log' = [log EXCEPT ![u] = Logged(u, "fetch", TRUE)]
    /\ pc' = [pc EXCEPT ![u] = "fetched"]
    /\ heal' = Moved
    /\ UNCHANGED <<remote, changes, cache, readers, writers, options, char_index,
                   image, logo_png, result, sent, timeline, snap>>

\* line 35, the `?`: the fetch or the JSON decoding fails
FetchFail(u) ==
    /\ pc[u] = "idle"
    /\ log' = [log EXCEPT ![u] = Logged(u, "fetch", FALSE)]
    /\ result' = [result EXCEPT ![u] = "err"]
    /\ pc' = [pc EXCEPT ![u] = "done"]
    /\ UNCHANGED <<remote, changes, cache, readers, writers, live_logo, options,
                   char_index, image, logo_png, sent, timeline, snap, heal>>

\* line 36, LOGO_CACHE.read()
AcquireRead(u) ==
    /\ pc[u] = "fetched"
    /\ writers = {}
    /\ readers' = readers \cup {u}
    /\ pc' = [pc EXCEPT ![u] = "comparing"]
    /\ UNCHANGED <<remote, changes, cache, writers, live_logo, options, char_index,
                   image, logo_png, result, sent, timeline, log, snap, heal>>

\* mutant of Compare: no change detection, every fetch counts as a change
CompareAlways(u) ==
    /\ pc[u] = "comparing"
    /\ log' = [log EXCEPT ![u] = Logged(u, "compare", TRUE)]
    /\ readers' = readers \ {u}
    /\ pc' = [pc EXCEPT ![u] = "wantWrite"]
    /\ UNCHANGED <<remote, changes, cache, writers, live_logo, options, char_index,
                   image, logo_png, result, sent, timeline, snap, heal>>

\* lines 38-40 and 54-56: the comparison; the guard is dropped at line 40
\* when the descriptions differ, at the return when they are equal
Compare(u) ==
    /\ pc[u] = "comparing"
    /\ log' = [log EXCEPT ![u] = Logged(u, "compare", TRUE)]
    /\ readers' = readers \ {u}
    /\ IF live_logo[u] # cache
       THEN /\ pc' = [pc EXCEPT ![u] = "wantWrite"]
            /\ UNCHANGED <<result, heal>>
       ELSE /\ pc' = [pc EXCEPT ![u] = "done"]
            /\ result' = [result EXCEPT ![u] = "ok"]
            /\ heal' = Healed
    /\ UNCHANGED <<remote, changes, cache, writers, live_logo, options, char_index,
                   image, logo_png, sent, timeline, snap>>

\* mutant of AcquireWrite: the writer does not wait for the readers
AcquireWriteNoWait(u) ==
    /\ pc[u] = "wantWrite"
    /\ writers = {}
    /\ writers' = writers \cup {u}
    /\ pc' = [pc EXCEPT ![u] = "writing"]
    /\ UNCHANGED <<remote, changes, cache, readers, live_logo, options, char_index,
                   image, logo_png, result, sent, timeline, log, snap, heal>>

\* line 42, LOGO_CACHE.write()
AcquireWrite(u) ==
    /\ pc[u] = "wantWrite"
    /\ readers = {}
    /\ writers = {}
    /\ writers' = writers \cup {u}
    /\ pc' = [pc EXCEPT ![u] = "writing"]
    /\ UNCHANGED <<remote, changes, cache, readers, live_logo, options, char_index,
                   image, logo_png, result, sent, timeline, log, snap, heal>>

\* mutant of Swap: the fetched description is dropped, the cache keeps its value
SwapKeep(u) ==
    /\ pc[u] = "writing"
    /\ log' = [log EXCEPT ![u] = Logged(u, "swap", TRUE)]
    /\ writers' = writers \ {u}
    /\ pc' = [pc EXCEPT ![u] = "swapped"]
    /\ heal' = Moved
    /\ UNCHANGED <<remote, changes, cache, readers, live_logo, options, char_index,
                   image, logo_png, result, sent, timeline, snap>>

\* lines 43-46: mem::replace and the drop of the write guard
Swap(u) ==
    /\ pc[u] = "writing"
    /\ cache' = live_logo[u]
    /\ log' = [log EXCEPT ![u] = Logged(u, "swap", TRUE)]
    /\ writers' = writers \ {u}
    /\ pc' = [pc EXCEPT ![u] = "swapped"]
    /\ heal' = Moved
    /\ UNCHANGED <<remote, changes, readers, live_logo, options, char_index,
                   image, logo_png, result, sent, timeline, snap>>

----------------------------------------------------------------------------
(* get_logo_png and get_logo_data: logo.rs 58-133 *)

\* lines 75-76: the options and LOGO_CACHE.read()
ReadCache(p, o) ==
    /\ writers = {}
    /\ readers' = readers \cup {p}
    /\ options' = [options EXCEPT ![p] = o]
    /\ char_index' = [char_index EXCEPT ![p] = 0]
    /\ image' = [image EXCEPT ![p] = NewImage(o)]
    /\ snap' = [snap EXCEPT ![p] = cache]
    /\ pc' = [pc EXCEPT ![p] = "rendering"]

\* line 48: the cycle renders the default view
StartRender(u) ==
    /\ pc[u] = "swapped"
    /\ ReadCache(u, DefaultOptions)
    /\ UNCHANGED <<remote, changes, cache, writers, live_logo, logo_png, result,
                   sent, timeline, log, heal>>

\* a render request arrives with the options o
StartRequest(r, o) ==
    /\ pc[r] = "idle"
    /\ ReadCache(r, o)
    /\ UNCHANGED <<remote, changes, cache, writers, live_logo, logo_png, result,
                   sent, timeline, log, heal>>

\* is there a character left to write
MoreToWrite(p) ==
    IF options[p].character = <<>> THEN char_index[p] < Len(cache)
    ELSE char_index[p] = 0

\* lines 85-92 (one iteration) and 119-124: the result of the next
\* write_character call, made on the cache as it is now
WriteResult(p) ==
    IF options[p].character = <<>>
    THEN WriteOne(cache, options[p], char_index[p], image[p])
    ELSE IF options[p].character[1] >= Len(cache)
         THEN [status |-> "err", image |-> image[p]]
         ELSE WriteOne(cache, options[p], options[p].character[1], image[p])

\* the call returns Ok(()): the character is in the buffer
WriteChar(p) ==
    /\ pc[p] = "rendering"
    /\ MoreToWrite(p)
    /\ WriteResult(p).status = "ok"
    /\ log' = [log EXCEPT ![p] = Logged(p, "render", TRUE)]
    /\ image' = [image EXCEPT ![p] = WriteResult(p).image]
    /\ char_index' = [char_index EXCEPT ![p] = @ + 1]
    /\ UNCHANGED <<remote, changes, cache, readers, writers, pc, live_logo, options,
                   logo_png, result, sent, timeline, snap, heal>>

\* mutant of OnRenderError: the cycle swallows the error and goes on to the
\* broadcast
OnRenderErrorGoOn(p) == IF p \in Updaters THEN "sending" ELSE "done"

\* where a unit of work goes when its render fails: the `?` of lines 48, 60,
\* 91, 122 and 124 (or the unwinding of a panic) ends it
OnRenderError(p) == "done"

\* the call fails (no such character, a colour that is no hex number, or a
\* panic on an index): the unit of work ends and the read guard is dropped
RenderFail(p) ==
    /\ pc[p] = "rendering"
    /\ MoreToWrite(p)
    /\ WriteResult(p).status # "ok"
    /\ log' = [log EXCEPT ![p] = Logged(p, "render", FALSE)]
    /\ readers' = readers \ {p}
    /\ result' = [result EXCEPT ![p] = WriteResult(p).status]
    /\ pc' = [pc EXCEPT ![p] = OnRenderError(p)]
    /\ heal' = Failed(p)
    /\ snap' = [snap EXCEPT ![p] = EmptyLogo]
    /\ UNCHANGED <<remote, changes, cache, writers, live_logo, options, char_index,
                   image, logo_png, sent, timeline>>

\* mutant of RenderReturn: the read guard outlives get_logo_data
RenderReturnHold(p) ==
    /\ pc[p] = "rendering"
    /\ ~MoreToWrite(p)
    /\ log' = [log EXCEPT ![p] = Logged(p, "render", TRUE)]
    /\ pc' = [pc EXCEPT ![p] = "encoding"]
    /\ UNCHANGED <<remote, changes, cache, readers, writers, live_logo, options,
                   char_index, image, logo_png, result, sent, timeline, snap, heal>>

\* lines 93-97 and 126-130: Ok(Logo {..}); the read guard is dropped
RenderReturn(p) ==
    /\ pc[p] = "rendering"
    /\ ~MoreToWrite(p)
    /\ log' = [log EXCEPT ![p] = Logged(p, "render", TRUE)]
    /\ readers' = readers \ {p}
    /\ pc' = [pc EXCEPT ![p] = "encoding"]
    /\ snap' = [snap EXCEPT ![p] = EmptyLogo]
    /\ UNCHANGED <<remote, changes, cache, writers, live_logo, options, char_index,
                   image, logo_png, result, sent, timeline, heal>>

\* lines 62-71: the PNG encoder
Encode(p) ==
    /\ pc[p] = "encoding"
    /\ LET e == EncodePng(image[p])
       IN  /\ log' = [log EXCEPT ![p] = Logged(p, "encode", e.status = "ok")]
           /\ IF e.status = "ok"
              THEN /\ logo_png' = [logo_png EXCEPT ![p] = e]
                   /\ IF p \in Updaters
                      THEN /\ pc' = [pc EXCEPT ![p] = "sending"]
                           /\ UNCHANGED result
                      ELSE /\ pc' = [pc EXCEPT ![p] = "done"]
                           /\ result' = [result EXCEPT ![p] = "ok"]
                   /\ UNCHANGED heal
              ELSE /\ result' = [result EXCEPT ![p] = e.status]
                   /\ pc' = [pc EXCEPT ![p] = "done"]
                   /\ heal' = Failed(p)
                   /\ UNCHANGED logo_png
    /\ UNCHANGED <<remote, changes, cache, readers, writers, live_logo, options,
                   char_index, image, sent, timeline, snap>>

----------------------------------------------------------------------------
(* update_logo, after the render: logo.rs 50-56 *)

\* line 50, live::send_update
SendUpdate(u) ==
    /\ pc[u] = "sending"
    /\ sent' = logo_png[u]
    /\ log' = [log EXCEPT ![u] = Logged(u, "broadcast", TRUE)]
    /\ pc' = [pc EXCEPT ![u] = "saving"]
    /\ heal' = Moved
    /\ UNCHANGED <<remote, changes, cache, readers, writers, live_logo, options,
                   char_index, image, logo_png, result, timeline, snap>>

\* lines 51 and 56, db::save_logo (db.rs 89-101) returns Ok
SaveLogo(u) ==
    /\ pc[u] = "saving"
    /\ timeline' = [timeline EXCEPT ![u] = logo_png[u]]
    /\ log' = [log EXCEPT ![u] = Logged(u, "persist", TRUE)]
    /\ result' = [result EXCEPT ![u] = "ok"]
    /\ pc' = [pc EXCEPT ![u] = "done"]
    /\ heal' = Healed
    /\ UNCHANGED <<remote, changes, cache, readers, writers, live_logo, options,
                   char_index, image, logo_png, sent, snap>>

\* mutant of SaveLogoFail: the store error is propagated with `?`
SaveLogoFailPropagate(u) ==
    /\ pc[u] = "saving"
    /\ log' = [log EXCEPT ![u] = Logged(u, "persist", FALSE)]
    /\ result' = [result EXCEPT ![u] = "err"]
    /\ pc' = [pc EXCEPT ![u] = "done"]
    /\ UNCHANGED <<remote, changes, cache, readers, writers, live_logo, options,
                   char_index, image, logo_png, sent, timeline, snap, heal>>

\* lines 51-53 and 56, db::save_logo returns Err: it is printed, nothing else
SaveLogoFail(u) ==
    /\ pc[u] = "saving"
    /\ log' = [log EXCEPT ![u] = Logged(u, "persist", FALSE)]
    /\ result' = [result EXCEPT ![u] = "ok"]
    /\ pc' = [pc EXCEPT ![u] = "done"]
    /\ heal' = Healed
    /\ UNCHANGED <<remote, changes, cache, readers, writers, live_logo, options,
                   char_index, image, logo_png, sent, timeline, snap>>

\* the unit of work is over; its locals are gone
Return(p) ==
    /\ pc[p] = "done"
    /\ pc' = [pc EXCEPT ![p] = "idle"]
    /\ live_logo' = [live_logo EXCEPT ![p] = EmptyLogo]
    /\ options' = [options EXCEPT ![p] = DefaultOptions]
    /\ char_index' = [char_index EXCEPT ![p] = 0]
    /\ image' = [image EXCEPT ![p] = NoImage]
    /\ logo_png' = [logo_png EXCEPT ![p] = NoPng]
    /\ result' = [result EXCEPT ![p] = "none"]
    /\ log' = [log EXCEPT ![p] = <<>>]
    /\ snap' = [snap EXCEPT ![p] = EmptyLogo]
    /\ timeline' = [timeline EXCEPT ![p] = NoPng]
    /\ UNCHANGED <<remote, changes, cache, readers, writers, sent, heal>>

----------------------------------------------------------------------------
(* Specifications *)

Next ==
    \/ RemoteChange
    \/ \E u \in Updaters : Fetch(u)
    \/ \E u \in Updaters : FetchFail(u)
    \/ \E u \in Updaters : AcquireRead(u)
    \/ \E u \in Updaters : Compare(u)
    \/ \E u \in Updaters : AcquireWrite(u)
    \/ \E u \in Updaters : Swap(u)
    \/ \E u \in Updaters : StartRender(u)
    \/ \E r \in Requesters : \E o \in PipeOptions : StartRequest(r, o)
    \/ \E p \in Procs : WriteChar(p)
    \/ \E p \in Procs : RenderFail(p)
    \/ \E p \in Procs : RenderReturn(p)
    \/ \E p \in Procs : Encode(p)
    \/ \E u \in Updaters : SendUpdate(u)
    \/ \E u \in Updaters : SaveLogo(u)
    \/ \E u \in Updaters : SaveLogoFail(u)
    \/ \E p \in Procs : Return(p)

\* refresh cycles and render requests running concurrently
Spec == Init /\ [][Next]_vars

\* the steps of a refresh cycle after its fetch, the render loop apart
UStep(u) ==
    \/ AcquireRead(u) \/ Compare(u) \/ AcquireWrite(u) \/ Swap(u)
    \/ StartRender(u) \/ RenderReturn(u) \/ Encode(u)
    \/ SendUpdate(u) \/ SaveLogo(u) \/ SaveLogoFail(u) \/ Return(u)

\* the steps of a render request after its render loop
RStep(r) == RenderReturn(r) \/ Encode(r) \/ Return(r)

\* the render loop of get_logo_data is over a finite description: it does not
\* stay with characters left to write (WriteChar or RenderFail is taken)
LoopEnds(p) == []<>(~(pc[p] = "rendering" /\ MoreToWrite(p)))

\* Refresh cycles keep being triggered and their fetches keep succeeding; a
\* unit of work that can take its next step takes it, and a unit waiting for
\* the lock gets it when it is free again and again (parking_lot's RwLock
\* does not starve a waiter); a render request that started finishes.
FairSpec ==
    /\ Spec
    /\ \A u \in Updaters : SF_vars(Fetch(u)) /\ SF_vars(UStep(u))
    /\ \A r \in Requesters : WF_vars(RStep(r))
    /\ \A p \in Procs : LoopEnds(p)

\* the compositor alone: the cache holds any of RenderDescs and render
\* requests with any of AllOptions run on it
RenderInit ==
    /\ cache \in RenderDescs
    /\ remote = cache
    /\ changes = 0
    /\ readers = {}
    /\ writers = {}
    /\ pc = [p \in Procs |-> "idle"]
    /\ live_logo = [p \in Procs |-> EmptyLogo]
    /\ options = [p \in Procs |-> DefaultOptions]
    /\ char_index = [p \in Procs |-> 0]
    /\ image = [p \in Procs |-> NoImage]
    /\ logo_png = [p \in Procs |-> NoPng]
    /\ result = [p \in Procs |-> "none"]
    /\ sent = NoPng
    /\ timeline = [p \in Procs |-> NoPng]
    /\ log = [p \in Procs |-> <<>>]
    /\ snap = [p \in Procs |-> EmptyLogo]
    /\ heal = "none"

RenderNext ==
    \/ \E r \in Requesters : \E o \in AllOptions : StartRequest(r, o)
    \/ \E r \in Requesters : WriteChar(r)
    \/ \E r \in Requesters : RenderFail(r)
    \/ \E r \in Requesters : RenderReturn(r)
    \/ \E r \in Requesters : Encode(r)
    \/ \E r \in Requesters : Return(r)

RenderSpec == RenderInit /\ [][RenderNext]_vars

----------------------------------------------------------------------------
(* Properties *)

Ops(l) == { l[i].op : i \in 1..Len(l) }

\* the log l holds a failed render or encode
RenderFailed(l) ==
    \E i \in 1..Len(l) : l[i].op \in {"render", "encode"} /\ ~l[i].ok

\* the log l holds a failed db::save_logo
SaveFailed(l) == \E i \in 1..Len(l) : l[i].op = "persist" /\ ~l[i].ok

\* C1: a cycle whose fetched description equals the cached one leaves the
\* cache as it is and returns Ok without taking the write lock, rendering,
\* broadcasting or inserting; a cycle whose fetched description differs goes
\* on to the write lock, and its swap makes the cache the fetched description
C1_SwapIfChanged ==
    [][\A u \in Updaters :
        /\ (pc[u] = "comparing" /\ pc'[u] # "comparing") =>
              IF live_logo[u] = cache
              THEN /\ cache' = cache
                   /\ pc'[u] = "done"
                   /\ result'[u] = "ok"
                   /\ writers' = writers
                   /\ Ops(log'[u]) = {"fetch", "compare"}
                   /\ sent' = sent
                   /\ timeline' = timeline
              ELSE /\ pc'[u] = "wantWrite"
                   /\ cache' = cache
        /\ (pc[u] = "wantWrite" /\ pc'[u] # "wantWrite") => pc'[u] = "writing"
        /\ (pc[u] = "writing" /\ pc'[u] # "writing") =>
              /\ cache' = live_logo[u]
              /\ "swap" \in Ops(log'[u])]_vars

\* C1 witness: a cycle found the non-empty cache equal to what it fetched and
\* returned Ok with nothing but the fetch and the comparison done
C1_Witness ==
    \E u \in Updaters :
        /\ pc[u] = "done" /\ result[u] = "ok"
        /\ Ops(log[u]) = {"fetch", "compare"}
        /\ live_logo[u] = cache /\ cache # EmptyLogo

\* C2: no writer holds the cache lock while a reader holds it, no two writers
\* hold it together, the cache does not change under a render, and a render
\* that has written its last character built its whole image from the one
\* description the cache held when it took its read lock
C2_ConsistentSnapshot ==
    /\ writers # {} => readers = {}
    /\ Cardinality(writers) <= 1
    /\ \A p \in Procs :
        /\ pc[p] = "rendering" => cache = snap[p]
        /\ (pc[p] = "rendering" /\ ~MoreToWrite(p)) =>
              get_logo_data(snap[p], options[p]) = [status |-> "ok", image |-> image[p]]

\* C2 witness: a render request has written a character and still holds its
\* read lock while a refresh cycle that saw a change waits for the write lock
C2_Witness ==
    \E r \in Requesters, u \in Updaters :
        /\ pc[r] = "rendering" /\ char_index[r] >= 1 /\ r \in readers
        /\ pc[u] = "wantWrite" /\ live_logo[u] # cache

\* C3 as claimed: fetch, render, encode and persistence are done with no lock
\* on the cache held, and a lock is held only for the comparison and the swap
C3_Original ==
    \A p \in Procs : \A i \in 1..Len(log[p]) :
        /\ log[p][i].op \in {"fetch", "render", "encode", "persist"} =>
              log[p][i].lock = "none"
        /\ log[p][i].lock # "none" => log[p][i].op \in {"compare", "swap"}

\* C3 amended: fetch, encode, broadcast and persistence are done with no lock
\* on the cache held; the read lock is held for the comparison and for the
\* whole of get_logo_data's rendering, the write lock for the swap, and no
\* lock at any other point
C3_LockScope ==
    \A p \in Procs :
        /\ \A i \in 1..Len(log[p]) :
            /\ log[p][i].op \in {"fetch", "encode", "broadcast", "persist"} =>
                  log[p][i].lock = "none"
            /\ log[p][i].op \in {"compare", "render"} => log[p][i].lock = "read"
            /\ log[p][i].op = "swap" => log[p][i].lock = "write"
        /\ p \in readers <=> pc[p] \in {"comparing", "rendering"}
        /\ p \in writers <=> pc[p] = "writing"

\* C3 witness: a cycle went through every operation, down to the insert
C3_Witness ==
    \E u \in Updaters :
        /\ pc[u] = "done"
        /\ Ops(log[u]) = {"fetch", "compare", "swap", "render", "encode",
                          "broadcast", "persist"}

\* a successful render: get_logo_data has returned Ok(Logo)
Rendered(p) == pc[p] = "encoding" /\ PixelSize(options[p]) >= 1

\* C4 as claimed: the buffer of a successful render has width * height * 4
\* bytes and the alpha byte of every pixel of the image is 255
C4_Original ==
    \A r \in Requesters : Rendered(r) =>
        /\ image[r].len = image[r].width * image[r].height * 4
        /\ \A i \in 0..(image[r].width * image[r].height - 1) :
              Byte(image[r], 4 * i + 3) = 255

\* C4 amended: the buffer of a successful render has width * height * 4
\* bytes, and the alpha byte is 255 for every pixel the description covers
\* (a pixel the compositor wrote), each of which lies in the image; the
\* pixels it did not write keep the alpha 0 of the zeroed buffer
C4_BufferAndAlpha ==
    \A r \in Requesters : Rendered(r) =>
        /\ image[r].len = image[r].width * image[r].height * 4
        /\ image[r].width = CanvasWidth(options[r])
        /\ image[r].height = CanvasHeight(options[r])
        /\ \A i \in DOMAIN image[r].px :
              /\ 0 <= i /\ i < image[r].width * image[r].height
              /\ Byte(image[r], 4 * i + 3) = 255

\* C4 witness: a cropped single-character render at pixel size 2 returned,
\* with pixels written
C4_Witness ==
    \E r \in Requesters :
        /\ Rendered(r)
        /\ options[r] = [size |-> <<2>>, character |-> <<2>>, crop |-> TRUE]
        /\ Cardinality(DOMAIN image[r].px) >= 4 * 9

\* C5: when the render or the encoding fails in a cycle that has swapped the
\* cache, the cycle ends there with that failure, it has broadcast and
\* inserted nothing, and the failing step leaves the cache (the fetched
\* description) and the last broadcast and inserted artifacts as they are
C5_RenderFailureKeepsSwap ==
    [][\A u \in Updaters :
        ("swap" \in Ops(log'[u]) /\ RenderFailed(log'[u])) =>
            /\ pc'[u] = "done"
            /\ result'[u] \in {"err", "panic"}
            /\ Ops(log'[u]) \cap {"broadcast", "persist"} = {}
            /\ ~RenderFailed(log[u]) =>
                  /\ cache' = cache
                  /\ sent' = sent
                  /\ timeline' = timeline]_vars

\* C5 witness: a cycle swapped, failed in the render and ended with the
\* error, and the cache holds what it fetched
C5_Witness ==
    \E u \in Updaters :
        /\ pc[u] = "done" /\ result[u] = "err"
        /\ "swap" \in Ops(log[u]) /\ RenderFailed(log[u])
        /\ cache = live_logo[u] /\ cache # EmptyLogo

\* C6 as claimed: once a cycle has swapped and failed to render, the next
\* cycle that returns Ok leaves the last broadcast artifact a rendering of
\* the cached description
C6_Claim ==
    heal = "healed" => sent = get_logo_png(cache, DefaultOptions)

\* C7: when db::save_logo fails the cycle ends there with Ok (no retry), the
\* cache and the broadcast artifact stay as they were, and the attempt came
\* after the broadcast of the same PNG
C7_SaveFailureSwallowed ==
    [][\A u \in Updaters :
        /\ (SaveFailed(log'[u]) /\ ~SaveFailed(log[u])) =>
              /\ pc[u] = "saving"
              /\ pc'[u] = "done"
              /\ result'[u] = "ok"
              /\ cache' = cache
              /\ sent' = sent
              /\ timeline' = timeline
              /\ {"swap", "broadcast"} \subseteq Ops(log[u])
        /\ ("persist" \in Ops(log'[u]) /\ "persist" \notin Ops(log[u])) =>
              /\ "broadcast" \in Ops(log[u])
              /\ pc'[u] = "done"]_vars

\* C7 witness: a cycle whose insert failed has returned Ok, and the cache and
\* the broadcast hold what it wrote and sent
C7_Witness ==
    \E u \in Updaters :
        /\ pc[u] = "done" /\ result[u] = "ok" /\ SaveFailed(log[u])
        /\ cache = live_logo[u] /\ sent = logo_png[u] /\ timeline[u] = NoPng

\* C8: the remote description changes finitely often, so from some point on
\* the cache equals it for good, whatever updates were lost on the way
C8_Converges == <>[](cache = remote)

\* C8 witness: two overlapping cycles both saw a change and both wrote; the
\* one that had fetched the older description wrote last, so the cache is
\* not the remote description
C8_Witness ==
    \E u, v \in Updaters :
        /\ u # v
        /\ "swap" \in Ops(log[u]) /\ "swap" \in Ops(log[v])
        /\ live_logo[v] = remote /\ live_logo[u] # remote
        /\ cache = live_logo[u]

\* the characters of the cache that the layout of o places and the table knows
LayoutChars(o) ==
    (IF o.character = <<>> THEN 0..(Len(cache) - 1)
     ELSE {o.character[1]} \cap (0..(Len(cache) - 1)))
    \cap (0..(Len(coords) - 1))

\* the panels of character i of the cache that the table holds an offset for
TablePanels(i) ==
    (0..(Len(cache[i + 1]) - 1)) \cap (0..(Len(coords[i + 1]) - 1))

\* C9 as claimed: in the layout of a render, every pixel 0..63 of every panel
\* that the table holds an offset for is placed inside the canvas, so that a
\* render of a description that stays within the table and within 64 pixels
\* a panel writes nothing outside the buffer
C9_Claim ==
    \A r \in Requesters : pc[r] = "rendering" =>
        \A i \in LayoutChars(options[r]) : \A p \in TablePanels(i) :
            \A k \in (0..(Len(cache[i + 1][p + 1]) - 1)) \cap (0..63) :
                LET x == PosX(i, p, k, IF options[r].character = <<>> THEN StripX(i) ELSE 0)
                    y == PosY(i, p, k, IF options[r].character = <<>> THEN 0
                                       ELSE CropY(options[r]))
                IN  /\ 0 <= x /\ x < image[r].width \div PixelSize(options[r])
                    /\ 0 <= y /\ y < image[r].height \div PixelSize(options[r])

\* C10 as claimed: the PNG a cycle hands to broadcast and to the insert is
\* the default rendering of the description the cycle fetched
C10_Claim ==
    \A u \in Updaters :
        /\ Ops(log[u]) \cap {"broadcast", "persist"} # {} =>
              logo_png[u] = get_logo_png(live_logo[u], DefaultOptions)
        /\ timeline[u] # NoPng =>
              timeline[u] = get_logo_png(live_logo[u], DefaultOptions)

====
